---- MODULE Spec2Model ----
(***************************************************************************)
(* Model of src/lang/ast.c of ply: the AST node constructors, the generic  *)
(* pre/post-order walker, the destructor driven by the walker, the         *)
(* ancestor query node_get_stmt and the per-probe register and stack       *)
(* allocators.                                                             *)
(***************************************************************************)
EXTENDS Integers, Sequences, FiniteSets, TLC

VARIABLES
    heap,       \* [nodes: the allocated node_t objects, strs: the heap strings]
    q,          \* the last node_get_stmt call: [n, ret], or NoQuery
    stat_regs,  \* probe->dyn->probe.stat_regs
    dyn_regs,   \* probe->dyn->probe.dyn_regs
    sp,         \* probe->dyn->probe.sp
    regLog,     \* the node_probe_reg_get calls made so far: [dynamic, ret]
    stackLog,   \* the node_probe_stack_get calls made so far: [size, ret]
    root,       \* the node node_walk was called on, NULL when no walk was started
    pre,        \* the pre callback of the walk: NoCb or "cb"
    post,       \* the post callback of the walk: NoCb, "cb" or "_node_free"
    stack,      \* the call stack of node_walk / _node_walk_list frames
    result,     \* <<v>> once node_walk on the root returned v
    log,        \* the callback invocations so far: [n, cb, st]
    freeLog,    \* the nodes passed to free(), in order
    freedDyn,   \* the nodes whose dyn was passed to free()
    uaf         \* a field of a freed node was read

allocVars == <<stat_regs, dyn_regs, sp, regLog, stackLog>>
walkVars == <<root, pre, post, stack, result, log, freeLog, freedDyn, uaf>>
vars == <<heap, q, allocVars, walkVars>>

NULL == 0

\* ------------------------------------------------------------------ bounds
MaxRegCalls   == 5
MaxStackCalls == 3
MaxSize       == 2
MaxNodes      == 3

\* ------------------------------------------------------- register allocator
BPF_REG_6 == 6
BPF_REG_9 == 9

RECURSIVE Pow2(_)
Pow2(k) == IF k = 0 THEN 1 ELSE 2 * Pow2(k - 1)

\* (mask) & (1 << reg) is non-zero
BitSet(mask, reg) == (mask \div Pow2(reg)) % 2 = 1

\* the mask left as it is
BitKeep(mask, reg) == mask

\* mask & ~(1 << reg)
BitClear(mask, reg) == IF BitSet(mask, reg) THEN mask - Pow2(reg) ELSE mask

\* both masks hold exactly the three scratch registers BPF_REG_6..BPF_REG_8
FullMask == Pow2(6) + Pow2(7) + Pow2(8)

\* the test on the requested class's mask alone
reg_test_independent(pool, compl, reg) == BitSet(pool, reg)

\* the test of the scan loop: (*pool) & (*compl) & (1 << reg)
reg_test(pool, compl, reg) == BitSet(pool, reg) /\ BitSet(compl, reg)

\* for (reg = BPF_REG_6; reg < BPF_REG_9; reg++): the register found, or -1
RECURSIVE reg_scan(_, _, _)
reg_scan(pool, compl, reg) ==
    IF reg >= BPF_REG_9 THEN -1
    ELSE IF reg_test(pool, compl, reg) THEN reg
    ELSE reg_scan(pool, compl, reg + 1)

\* node_probe_reg_get: the value returned and the two masks after the call
node_probe_reg_get(stat, dyn, dynamic) ==
    LET pool  == IF dynamic THEN dyn ELSE stat
        compl == IF dynamic THEN stat ELSE dyn
        reg   == reg_scan(pool, compl, BPF_REG_6)
        pool2 == IF reg = -1 THEN pool ELSE BitClear(pool, reg)
    IN  [ret       |-> reg,
         stat_regs |-> IF dynamic THEN stat ELSE pool2,
         dyn_regs  |-> IF dynamic THEN pool2 ELSE dyn]

\* ---------------------------------------------------------- stack allocator
\* the stack growing upwards
stack_get_add(cur, size) == [ret |-> cur + size, sp |-> cur + size]

\* node_probe_stack_get: sp -= size; return sp
node_probe_stack_get(cur, size) == [ret |-> cur - size, sp |-> cur - size]

RegGet(dynamic) ==
    /\ Len(regLog) < MaxRegCalls
    /\ LET r == node_probe_reg_get(stat_regs, dyn_regs, dynamic)
       IN  /\ stat_regs' = r.stat_regs
           /\ dyn_regs' = r.dyn_regs
           /\ regLog' = Append(regLog, [dynamic |-> dynamic, ret |-> r.ret])
    /\ UNCHANGED <<heap, q, sp, stackLog, walkVars>>

StackGet(size) ==
    /\ Len(stackLog) < MaxStackCalls
    /\ LET r == node_probe_stack_get(sp, size)
       IN  /\ sp' = r.sp
           /\ stackLog' = Append(stackLog, [size |-> size, ret |-> r.ret])
    /\ UNCHANGED <<heap, q, stat_regs, dyn_regs, regLog, walkVars>>

\* ------------------------------------------------------------- node model
Types == {"script", "probe", "if", "unroll", "call", "method", "assign",
          "binop", "not", "map", "var", "rec", "str", "int"}

\* calloc(1, sizeof(*n)) with n->type set; dyn is allocated for every type
\* but map and var (1: the node's own annotation, NULL: none)
node_new(type) ==
    [type |-> type, parent |-> NULL, next |-> NULL,
     dyn |-> IF type # "map" /\ type # "var" THEN 1 ELSE NULL,
     string |-> NULL, integer |-> 0, module |-> NULL,
     vargs |-> NULL, n_vargs |-> 0, rec |-> NULL, not |-> NULL,
     left |-> NULL, right |-> NULL, lval |-> NULL, expr |-> NULL,
     map |-> NULL, call |-> NULL, cond |-> NULL, then |-> NULL,
     els |-> NULL, then_last |-> NULL, stmts |-> NULL, pred |-> NULL,
     probes |-> NULL, op |-> NULL, count |-> 0]

\* the heap after node_new(type); the new node is the last one
Alloc(m, type) == [m EXCEPT !.nodes = Append(@, node_new(type))]

Last(m) == Len(m.nodes)

\* a heap string handed over by the caller, or made by strdup
StrDup(m) == [m EXCEPT !.strs = Append(@, "live")]

LastStr(m) == Len(m.strs)

\* the parent set on the head of the list alone
foreach_parent_head_only(ns, c, n) ==
    IF c = NULL THEN ns ELSE [ns EXCEPT ![c].parent = n]

\* node_foreach(c, head) c->parent = n;
RECURSIVE foreach_parent(_, _, _)
foreach_parent(ns, c, n) ==
    IF c = NULL THEN ns
    ELSE foreach_parent([ns EXCEPT ![c].parent = n], ns[c].next, n)

\* the same loop ending one element early in its count
RECURSIVE foreach_vargs_miss_last(_, _, _)
foreach_vargs_miss_last(ns, c, n) ==
    IF c = NULL THEN ns
    ELSE IF ns[c].next = NULL THEN [ns EXCEPT ![c].parent = n]
    ELSE foreach_vargs_miss_last(
             [ns EXCEPT ![c].parent = n, ![n].n_vargs = @ + 1], ns[c].next, n)

\* node_foreach(c, vargs) { c->parent = n; n->n_vargs++; }
RECURSIVE foreach_vargs(_, _, _)
foreach_vargs(ns, c, n) ==
    IF c = NULL THEN ns
    ELSE foreach_vargs(
             [ns EXCEPT ![c].parent = n, ![n].n_vargs = @ + 1], ns[c].next, n)

\* node_foreach(c, then) { c->parent = n; if (!c->next) n->iff.then_last = c; }
RECURSIVE foreach_then(_, _, _)
foreach_then(ns, c, n) ==
    IF c = NULL THEN ns
    ELSE foreach_then(
             [ns EXCEPT ![c].parent = n,
                        ![n].then_last = IF ns[c].next = NULL THEN c ELSE @],
             ns[c].next, n)

node_str_new(m, val) ==
    LET m1 == Alloc(m, "str")
    IN  [m1 EXCEPT !.nodes[Last(m1)].string = val]

node_int_new(m, val) ==
    LET m1 == Alloc(m, "int")
    IN  [m1 EXCEPT !.nodes[Last(m1)].integer = val]

node_rec_new(m, vargs) ==
    LET m1 == Alloc(m, "rec")
        n  == Last(m1)
        ns == [m1.nodes EXCEPT ![n].vargs = vargs]
    IN  [m1 EXCEPT !.nodes = foreach_vargs(ns, vargs, n)]

\* rec = NULL: rec = node_rec_new(node_str_new(strdup("")))
node_map_new(m, name, rec) ==
    LET m1 == Alloc(m, "map")
        n  == Last(m1)
        m2 == IF rec # NULL THEN m1
              ELSE LET s == StrDup(m1)
                   IN  node_rec_new(node_str_new(s, LastStr(s)),
                                    Last(s) + 1)
        r  == IF rec # NULL THEN rec ELSE Last(m2)
    IN  [m2 EXCEPT !.nodes[n].string = name,
                   !.nodes[n].rec = r,
                   !.nodes[r].parent = n]

node_var_new(m, name) ==
    LET m1 == Alloc(m, "var")
    IN  [m1 EXCEPT !.nodes[Last(m1)].string = name]

node_not_new(m, expr) ==
    LET m1 == Alloc(m, "not")
        n  == Last(m1)
    IN  [m1 EXCEPT !.nodes[n].not = expr, !.nodes[expr].parent = n]

node_binop_new(m, left, op, right) ==
    LET m1 == Alloc(m, "binop")
        n  == Last(m1)
    IN  [m1 EXCEPT !.nodes[n].op = op,
                   !.nodes[n].left = left,
                   !.nodes[n].right = right,
                   !.nodes[left].parent = n,
                   !.nodes[right].parent = n]

\* n->string = strdup("=")
node_assign_new(m, lval, expr) ==
    LET m1 == StrDup(Alloc(m, "assign"))
        n  == Last(m1)
        m2 == [m1 EXCEPT !.nodes[n].string = LastStr(m1),
                         !.nodes[n].lval = lval,
                         !.nodes[n].expr = expr,
                         !.nodes[lval].parent = n]
    IN  IF expr # NULL THEN [m2 EXCEPT !.nodes[expr].parent = n] ELSE m2

\* call->call.module = strdup("method")
node_method_new(m, map, call) ==
    LET m1 == StrDup(Alloc(m, "method"))
        n  == Last(m1)
    IN  [m1 EXCEPT !.nodes[call].module = LastStr(m1),
                   !.nodes[n].map = map,
                   !.nodes[n].call = call,
                   !.nodes[map].parent = n,
                   !.nodes[call].parent = n]

node_call_new(m, module, func, vargs) ==
    LET m1 == Alloc(m, "call")
        n  == Last(m1)
        ns == [m1.nodes EXCEPT ![n].string = func,
                               ![n].module = module,
                               ![n].vargs = vargs]
    IN  [m1 EXCEPT !.nodes = foreach_vargs(ns, vargs, n)]

node_if_new(m, cond, then, els) ==
    LET m1 == Alloc(m, "if")
        n  == Last(m1)
        ns == [m1.nodes EXCEPT ![n].cond = cond,
                               ![n].then = then,
                               ![n].els = els,
                               ![cond].parent = n]
        n2 == foreach_then(ns, then, n)
    IN  [m1 EXCEPT !.nodes = IF els # NULL THEN foreach_parent(n2, els, n)
                             ELSE n2]

node_unroll_new(m, count, stmts) ==
    LET m1 == Alloc(m, "unroll")
        n  == Last(m1)
        ns == [m1.nodes EXCEPT ![n].count = count, ![n].stmts = stmts]
    IN  [m1 EXCEPT !.nodes = foreach_parent(ns, stmts, n)]

node_probe_new(m, pspec, pred, stmts) ==
    LET m1 == Alloc(m, "probe")
        n  == Last(m1)
        ns == [m1.nodes EXCEPT ![n].string = pspec,
                               ![n].pred = pred,
                               ![n].stmts = stmts]
        n2 == IF pred # NULL THEN [ns EXCEPT ![pred].parent = n] ELSE ns
    IN  [m1 EXCEPT !.nodes = foreach_parent(n2, stmts, n)]

node_script_new(m, probes) ==
    LET m1 == Alloc(m, "script")
        n  == Last(m1)
        ns == [m1.nodes EXCEPT ![n].probes = probes]
    IN  [m1 EXCEPT !.nodes = foreach_parent(ns, probes, n)]

\* the constructors called with heap strings of the caller's
NewStr(m) == node_str_new(StrDup(m), Len(m.strs) + 1)

NewVar(m) == node_var_new(StrDup(m), Len(m.strs) + 1)

NewMap(m, rec) == node_map_new(StrDup(m), Len(m.strs) + 1, rec)

NewCall(m, withModule, vargs) ==
    IF withModule
    THEN node_call_new(StrDup(StrDup(m)), Len(m.strs) + 1, Len(m.strs) + 2,
                       vargs)
    ELSE node_call_new(StrDup(m), NULL, Len(m.strs) + 1, vargs)

NewProbe(m, pred, stmts) ==
    node_probe_new(StrDup(m), Len(m.strs) + 1, pred, stmts)

\* ------------------------------------------------------- ancestor queries
\* the outcome of dereferencing a NULL parent in node_get_stmt
CRASH == -1

\* the test made on the node instead of its parent
RECURSIVE node_get_stmt_self(_, _)
node_get_stmt_self(ns, n) ==
    IF n = NULL THEN NULL
    ELSE IF ns[n].type = "probe" THEN n
    ELSE node_get_stmt_self(ns, ns[n].parent)

\* for (; n; n = n->parent) if (n->parent->type == TYPE_PROBE) return n;
RECURSIVE node_get_stmt(_, _)
node_get_stmt(ns, n) ==
    IF n = NULL THEN NULL
    ELSE IF ns[n].parent = NULL THEN CRASH
    ELSE IF ns[ns[n].parent].type = "probe" THEN n
    ELSE node_get_stmt(ns, ns[n].parent)

\* ------------------------------------------------------ building the tree
NoQuery == [n |-> NULL, ret |-> NULL]

Ids == 1..Len(heap.nodes)

\* the sibling chain headed by c, in order
RECURSIVE Chain(_, _)
Chain(ns, c) == IF c = NULL THEN <<>> ELSE <<c>> \o Chain(ns, ns[c].next)

Range(f) == {f[i] : i \in DOMAIN f}

HasPred(ns, n) == \E i \in DOMAIN ns : ns[i].next = n

\* nodes no constructor has taken yet and that head a sibling chain
Heads == {i \in Ids : heap.nodes[i].parent = NULL /\ ~HasPred(heap.nodes, i)}

\* k more nodes fit
Room(k) == Len(heap.nodes) + k <= MaxNodes

IntVals == {1}
Ops == {">"}

\* the parser's value stack: the finished subtrees and lists no constructor
\* has taken yet, oldest first
HeadSeq ==
    LET IsHead(i) == i \in Heads
    IN  SelectSeq([i \in 1..Len(heap.nodes) |-> i], IsHead)

\* a reduction hands the topmost values of the stack, in order, to the
\* constructor: present[i] says whether argument i is given or NULL
RECURSIVE Fill(_, _, _)
Fill(present, h, i) ==
    IF i > Len(present) THEN <<>>
    ELSE IF present[i]
         THEN LET rest == Len(SelectSeq(SubSeq(present, i, Len(present)),
                                        LAMBDA x : x))
              IN  <<h[Len(h) - rest + 1]>> \o Fill(present, h, i + 1)
         ELSE <<NULL>> \o Fill(present, h, i + 1)

ArgLists(k) ==
    LET h == HeadSeq
    IN  {Fill(present, h, 1) : present \in
            {pr \in [1..k -> BOOLEAN] :
                Len(SelectSeq(pr, LAMBDA x : x)) <= Len(h)}}

IsSingle(n) == n # NULL /\ heap.nodes[n].next = NULL

\* the parser appends the list headed by b to the list that ends in a, before
\* the whole list is handed to a constructor
Link(a, b) ==
    /\ heap.nodes[a].next = NULL
    /\ a \notin Range(Chain(heap.nodes, b))
    /\ heap' = [heap EXCEPT !.nodes[a].next = b]
    /\ q' = NoQuery
    /\ UNCHANGED <<allocVars, walkVars>>

ListAppend ==
    \E args \in ArgLists(2) :
        /\ args[1] # NULL /\ args[2] # NULL
        /\ LET c == Chain(heap.nodes, args[1]) IN Link(c[Len(c)], args[2])

Built(m) ==
    /\ heap' = m
    /\ q' = NoQuery
    /\ UNCHANGED <<allocVars, walkVars>>

NodeStrNew ==
    /\ Room(1)
    /\ Built(NewStr(heap))

NodeIntNew ==
    /\ Room(1)
    /\ \E val \in IntVals : Built(node_int_new(heap, val))

NodeVarNew ==
    /\ Room(1)
    /\ Built(NewVar(heap))

NodeRecNew ==
    \E args \in ArgLists(1) :
        /\ Room(1)
        /\ Built(node_rec_new(heap, args[1]))

NodeMapNew ==
    \E args \in ArgLists(1) :
        /\ args[1] # NULL => IsSingle(args[1]) /\ heap.nodes[args[1]].type = "rec"
        /\ Room(IF args[1] = NULL THEN 3 ELSE 1)
        /\ Built(NewMap(heap, args[1]))

NodeNotNew ==
    \E args \in ArgLists(1) :
        /\ IsSingle(args[1])
        /\ Room(1)
        /\ Built(node_not_new(heap, args[1]))

NodeBinopNew ==
    \E args \in ArgLists(2), op \in Ops :
        /\ IsSingle(args[1]) /\ IsSingle(args[2])
        /\ Room(1)
        /\ Built(node_binop_new(heap, args[1], op, args[2]))

NodeAssignNew ==
    \E args \in ArgLists(2) :
        /\ IsSingle(args[1])
        /\ args[2] # NULL => IsSingle(args[2])
        /\ Room(1)
        /\ Built(node_assign_new(heap, args[1], args[2]))

NodeMethodNew ==
    \E args \in ArgLists(2) :
        /\ IsSingle(args[1]) /\ IsSingle(args[2])
        /\ heap.nodes[args[2]].type = "call"
        /\ Room(1)
        /\ Built(node_method_new(heap, args[1], args[2]))

NodeCallNew ==
    \E args \in ArgLists(1), withModule \in BOOLEAN :
        /\ Room(1)
        /\ Built(NewCall(heap, withModule, args[1]))

NodeIfNew ==
    \E args \in ArgLists(3) :
        /\ IsSingle(args[1])
        /\ Room(1)
        /\ Built(node_if_new(heap, args[1], args[2], args[3]))

NodeUnrollNew ==
    \E args \in ArgLists(1), count \in IntVals :
        /\ Room(1)
        /\ Built(node_unroll_new(heap, count, args[1]))

NodeProbeNew ==
    \E args \in ArgLists(2) :
        /\ args[1] # NULL => IsSingle(args[1])
        /\ Room(1)
        /\ Built(NewProbe(heap, args[1], args[2]))

NodeScriptNew ==
    \E args \in ArgLists(1) :
        /\ Room(1)
        /\ Built(node_script_new(heap, args[1]))

\* the strict ancestors of n, nearest first
RECURSIVE Ancestors(_, _)
Ancestors(ns, n) ==
    IF ns[n].parent = NULL THEN <<>>
    ELSE <<ns[n].parent>> \o Ancestors(ns, ns[n].parent)

InProbe(ns, n) == \E i \in Range(Ancestors(ns, n)) : ns[i].type = "probe"

\* node_get_stmt on a node inside a probe, as its callers guarantee
GetStmt ==
    /\ \E n \in Ids :
        /\ InProbe(heap.nodes, n)
        /\ q' = [n |-> n, ret |-> node_get_stmt(heap.nodes, n)]
    /\ UNCHANGED <<heap, allocVars, walkVars>>

EmptyHeap == [nodes |-> <<>>, strs |-> <<>>]

\* a probe whose annotation was just set up: full masks, sp = 0, no call made
InitProbe ==
    /\ stat_regs = FullMask /\ dyn_regs = FullMask /\ sp = 0
    /\ regLog = <<>> /\ stackLog = <<>>

\* result is <<>> until node_walk on the root returns v, then <<v>>
NoResult == <<>>

\* a callback that is not given
NoCb == "NULL"

NoWalk ==
    /\ root = NULL /\ pre = NoCb /\ post = NoCb
    /\ stack = <<>> /\ result = NoResult /\ log = <<>>
    /\ freeLog = <<>> /\ freedDyn = {} /\ uaf = FALSE

InitBuild ==
    /\ heap = EmptyHeap
    /\ q = NoQuery
    /\ InitProbe
    /\ NoWalk

NextBuild ==
    \/ NodeStrNew \/ NodeIntNew \/ NodeVarNew \/ NodeRecNew \/ NodeMapNew
    \/ NodeNotNew \/ NodeBinopNew \/ NodeAssignNew \/ NodeMethodNew
    \/ NodeCallNew \/ NodeIfNew \/ NodeUnrollNew \/ NodeProbeNew
    \/ NodeScriptNew
    \/ ListAppend
    \/ GetStmt

SpecBuild == InitBuild /\ [][NextBuild]_vars

InitAlloc == heap = EmptyHeap /\ q = NoQuery /\ InitProbe /\ NoWalk

NextAlloc ==
    \/ \E dynamic \in BOOLEAN : RegGet(dynamic)
    \/ \E size \in 0..MaxSize : StackGet(size)

SpecAlloc == InitAlloc /\ [][NextAlloc]_vars

\* ------------------------------------------------------------ the walker
MaxStatus == 2

\* what a callback may return: 0 to go on, anything else to abort
Statuses == 0..MaxStatus

Slot(kind, field, opt) == [kind |-> kind, field |-> field, opt |-> opt]

\* the same switch with the lvalue of an assignment left out
SlotsNoLval(type) ==
    CASE type = "script" -> <<Slot("list", "probes", FALSE)>>
      [] type = "probe"  -> <<Slot("walk", "pred", TRUE),
                              Slot("list", "stmts", FALSE)>>
      [] type = "if"     -> <<Slot("walk", "cond", FALSE),
                              Slot("list", "then", FALSE),
                              Slot("list", "els", TRUE)>>
      [] type = "unroll" -> <<Slot("list", "stmts", FALSE)>>
      [] type = "call"   -> <<Slot("list", "vargs", FALSE)>>
      [] type = "method" -> <<Slot("walk", "map", FALSE),
                              Slot("walk", "call", FALSE)>>
      [] type = "assign" -> <<Slot("walk", "expr", TRUE)>>
      [] type = "binop"  -> <<Slot("walk", "left", FALSE),
                              Slot("walk", "right", FALSE)>>
      [] type = "not"    -> <<Slot("walk", "not", FALSE)>>
      [] type = "map"    -> <<Slot("walk", "rec", FALSE)>>
      [] type = "rec"    -> <<Slot("list", "vargs", FALSE)>>
      [] OTHER           -> <<>>

\* switch (n->type) of node_walk: the children walked, in order; do_walk for
\* a single child, do_list for a sibling list, opt when guarded by a NULL test
Slots(type) ==
    CASE type = "script" -> <<Slot("list", "probes", FALSE)>>
      [] type = "probe"  -> <<Slot("walk", "pred", TRUE),
                              Slot("list", "stmts", FALSE)>>
      [] type = "if"     -> <<Slot("walk", "cond", FALSE),
                              Slot("list", "then", FALSE),
                              Slot("list", "els", TRUE)>>
      [] type = "unroll" -> <<Slot("list", "stmts", FALSE)>>
      [] type = "call"   -> <<Slot("list", "vargs", FALSE)>>
      [] type = "method" -> <<Slot("walk", "map", FALSE),
                              Slot("walk", "call", FALSE)>>
      [] type = "assign" -> <<Slot("walk", "lval", FALSE),
                              Slot("walk", "expr", TRUE)>>
      [] type = "binop"  -> <<Slot("walk", "left", FALSE),
                              Slot("walk", "right", FALSE)>>
      [] type = "not"    -> <<Slot("walk", "not", FALSE)>>
      [] type = "map"    -> <<Slot("walk", "rec", FALSE)>>
      [] type = "rec"    -> <<Slot("list", "vargs", FALSE)>>
      [] OTHER           -> <<>>

\* the loop of _node_walk_list going on whatever err is
walk_list_cond_ignore_err(err, elem) == elem # NULL

\* for (elem = next; !err && elem;)
walk_list_cond(err, elem) == err = 0 /\ elem # NULL

\* do_list / do_walk: if (err) return err
walk_err_return(err) == err # 0

\* elem = elem->next, read after the element was walked
list_advance_reread(ns, f) == [val |-> ns[f.elem].next, reads |-> {f.elem}]

\* elem = next, the link saved before the element was walked
list_advance(ns, f) == [val |-> f.next, reads |-> {}]

free_str(strs, id) ==
    IF id = NULL THEN strs
    ELSE [strs EXCEPT ![id] = IF @ = "live" THEN "freed" ELSE "double free"]

\* _node_free: the strings, annotations and nodes freed after the call
_node_free(ns, st, n) ==
    LET t  == ns[n].type
        s1 == IF t = "call" /\ ns[n].module # NULL
              THEN free_str(st.strs, ns[n].module) ELSE st.strs
        s2 == IF t \in {"call", "probe", "assign", "map", "str"}
              THEN free_str(s1, ns[n].string) ELSE s1
    IN  [strs     |-> s2,
         freedDyn |-> IF t # "map" /\ t # "var"
                      THEN st.freedDyn \cup {n} ELSE st.freedDyn,
         freeLog  |-> Append(st.freeLog, n)]

WalkFrame(n) ==
    [fn |-> "walk", n |-> n, pc |-> 0, elem |-> NULL, next |-> NULL,
     err |-> 0, back |-> FALSE]

ListFrame(head) ==
    [fn |-> "list", n |-> NULL, pc |-> 0, elem |-> head, next |-> head,
     err |-> 0, back |-> FALSE]

Top == stack[Len(stack)]

SetTop(f) == [stack EXCEPT ![Len(stack)] = f]

Freed == Range(freeLog)

\* return v: to the caller's err, or out of the walk as its result
Return(v) ==
    IF Len(stack) = 1
    THEN /\ stack' = <<>>
         /\ result' = <<v>>
    ELSE /\ stack' = [SubSeq(stack, 1, Len(stack) - 1) EXCEPT
                         ![Len(stack) - 1].err = v,
                         ![Len(stack) - 1].back = TRUE]
         /\ result' = result

\* a field of a freed node is read: anything may follow
Undefined ==
    /\ uaf' = TRUE
    /\ stack' = <<>>
    /\ result' = NoResult
    /\ UNCHANGED <<heap, q, allocVars, root, pre, post, freeLog, freedDyn>>

\* after pre let the walk go on: switch (n->type)
Enter ==
    IF Top.n \in Freed THEN Undefined
    ELSE /\ IF heap.nodes[Top.n].type = "none"
            THEN Return(-1)
            ELSE stack' = SetTop([Top EXCEPT !.pc = 1]) /\ result' = result
         /\ UNCHANGED <<heap, q, allocVars, root, pre, post, freeLog,
                        freedDyn, uaf>>

\* err = pre ? pre(n, ctx) : 0; if (err) return err;
CallPre ==
    /\ stack # <<>> /\ Top.fn = "walk" /\ Top.pc = 0
    /\ pre # NoCb
    /\ \E st \in Statuses :
        /\ log' = Append(log, [n |-> Top.n, cb |-> "pre", st |-> st])
        /\ IF st # 0
           THEN /\ Return(st)
                /\ UNCHANGED <<heap, q, allocVars, root, pre, post, freeLog,
                               freedDyn, uaf>>
           ELSE Enter

SkipPre ==
    /\ stack # <<>> /\ Top.fn = "walk" /\ Top.pc = 0
    /\ pre = NoCb
    /\ log' = log
    /\ Enter

\* the next do_walk / do_list of the case
WalkChild ==
    /\ stack # <<>> /\ Top.fn = "walk" /\ ~Top.back
    /\ Top.pc \in 1..Len(Slots(heap.nodes[Top.n].type))
    /\ IF Top.n \in Freed THEN Undefined /\ log' = log
       ELSE LET slot == Slots(heap.nodes[Top.n].type)[Top.pc]
                c    == heap.nodes[Top.n][slot.field]
            IN  /\ stack' =
                     IF slot.opt /\ c = NULL
                     THEN SetTop([Top EXCEPT !.pc = @ + 1])
                     ELSE Append(stack, IF slot.kind = "walk"
                                        THEN WalkFrame(c) ELSE ListFrame(c))
                /\ UNCHANGED <<heap, q, allocVars, root, pre, post, result,
                               log, freeLog, freedDyn, uaf>>

\* the callee returned into err: if (err) return err
WalkBack ==
    /\ stack # <<>> /\ Top.fn = "walk" /\ Top.back
    /\ IF walk_err_return(Top.err)
       THEN Return(Top.err)
       ELSE /\ stack' = SetTop([Top EXCEPT !.pc = @ + 1, !.back = FALSE])
            /\ result' = result
    /\ UNCHANGED <<heap, q, allocVars, root, pre, post, log, freeLog,
                   freedDyn, uaf>>

AtPost ==
    /\ stack # <<>> /\ Top.fn = "walk" /\ ~Top.back
    /\ Top.pc = Len(Slots(heap.nodes[Top.n].type)) + 1

\* return post ? post(n, ctx) : 0;
CallPost ==
    /\ AtPost
    /\ post = "cb"
    /\ \E st \in Statuses :
        /\ log' = Append(log, [n |-> Top.n, cb |-> "post", st |-> st])
        /\ Return(st)
    /\ UNCHANGED <<heap, q, allocVars, root, pre, post, freeLog, freedDyn, uaf>>

SkipPost ==
    /\ AtPost
    /\ post = NoCb
    /\ Return(0)
    /\ UNCHANGED <<heap, q, allocVars, root, pre, post, log, freeLog,
                   freedDyn, uaf>>

\* post is _node_free, which returns 0
NodeFree ==
    /\ AtPost
    /\ post = "_node_free"
    /\ IF Top.n \in Freed THEN Undefined /\ log' = log
       ELSE LET st == _node_free(heap.nodes,
                                 [strs |-> heap.strs, freedDyn |-> freedDyn,
                                  freeLog |-> freeLog], Top.n)
            IN  /\ heap' = [heap EXCEPT !.strs = st.strs]
                /\ freedDyn' = st.freedDyn
                /\ freeLog' = st.freeLog
                /\ Return(0)
                /\ UNCHANGED <<q, allocVars, root, pre, post, log, uaf>>

\* for (...; !err && elem;) { next = elem->next; err = node_walk(elem, ...)
ListLoop ==
    /\ stack # <<>> /\ Top.fn = "list" /\ ~Top.back
    /\ IF walk_list_cond(Top.err, Top.elem)
       THEN IF Top.elem \in Freed THEN Undefined /\ log' = log
            ELSE /\ stack' = Append(
                       SetTop([Top EXCEPT !.next = heap.nodes[Top.elem].next]),
                       WalkFrame(Top.elem))
                 /\ UNCHANGED <<heap, q, allocVars, root, pre, post, result,
                                log, freeLog, freedDyn, uaf>>
       ELSE /\ Return(Top.err)
            /\ UNCHANGED <<heap, q, allocVars, root, pre, post, log, freeLog,
                           freedDyn, uaf>>

\* ... elem = next; }
ListBack ==
    /\ stack # <<>> /\ Top.fn = "list" /\ Top.back
    /\ LET adv == list_advance(heap.nodes, Top)
       IN  IF adv.reads \cap Freed # {} THEN Undefined /\ log' = log
           ELSE /\ stack' = SetTop([Top EXCEPT !.elem = adv.val,
                                               !.back = FALSE])
                /\ UNCHANGED <<heap, q, allocVars, root, pre, post, result,
                               log, freeLog, freedDyn, uaf>>

NextWalk ==
    \/ CallPre \/ SkipPre \/ WalkChild \/ WalkBack
    \/ CallPost \/ SkipPost \/ NodeFree
    \/ ListLoop \/ ListBack

\* -------------------------------------------------------- the trees walked
\* a->next = b, as the parser chains a list
list_link(m, a, b) == [m EXCEPT !.nodes[a].next = b]

\* a > 1: 1 var a, 2 int 1, 3 binop
IfCond(m) == node_binop_new(node_int_new(NewVar(m), 1), 1, ">", 2)

\* x = 2: 4 var x, 5 int 2, 6 assign
IfThen(m) == node_assign_new(node_int_new(NewVar(m), 2), 4, 5)

\* x = 3: 7 var x, 8 int 3, 9 assign
IfElse(m) == node_assign_new(node_int_new(NewVar(m), 3), 7, 8)

\* if (a > 1) { x = 2; } else { x = 3; }: 10 if
IfExample == node_if_new(IfElse(IfThen(IfCond(EmptyHeap))), 3, 6, 9)

\* the order a pre callback sees the nodes of IfExample in
IfOrder == <<10, 3, 1, 2, 6, 4, 5, 9, 7, 8>>

\* !m: 1 map, 2 str, 3 rec (the default record), 4 not
ScriptPred(m) == node_not_new(NewMap(m, NULL), 1)

\* m2[s, 1].f(): 5 str, 6 int, 7 rec, 8 map, 9 call, 10 method
ScriptStmt1(m, withModule) ==
    node_method_new(
        NewCall(NewMap(node_rec_new(
                           list_link(node_int_new(NewStr(m), 1), 5, 6), 5), 7),
                withModule, NULL),
        8, 9)

\* unroll (1) { mod.g(v, s) }: 11 var, 12 str, 13 call, 14 unroll
ScriptStmt2(m) ==
    node_unroll_new(
        NewCall(list_link(NewStr(NewVar(m)), 11, 12), TRUE, 11), 1, 13)

\* an assignment without expression: 15 var, 16 assign
ScriptStmt3(m) == node_assign_new(NewVar(m), 15, NULL)

\* 17 probe with the predicate and the three statements, 18 empty probe
ScriptProbes(m) ==
    list_link(
        NewProbe(NewProbe(list_link(list_link(m, 10, 14), 14, 16), 4, 10),
                 NULL, NULL),
        17, 18)

\* a script of two probes that uses every constructor but if and binop:
\* 19 script
ScriptExample(withModule) ==
    node_script_new(
        ScriptProbes(ScriptStmt3(ScriptStmt2(
            ScriptStmt1(ScriptPred(EmptyHeap), withModule)))),
        17)

SampleHeaps == {IfExample} \cup {ScriptExample(w) : w \in BOOLEAN}

\* node_walk(n, pre, post, ctx) with callbacks of the caller's, and
\* node_free(n) = node_walk(n, NULL, _node_free, NULL) on a root
InitWalk ==
    /\ heap \in SampleHeaps
    /\ q = NoQuery
    /\ InitProbe
    /\ root \in 1..Len(heap.nodes)
    /\ \E mode \in {<<"cb", NoCb>>, <<NoCb, "cb">>, <<"cb", "cb">>,
                    <<NoCb, "_node_free">>} :
        /\ pre = mode[1] /\ post = mode[2]
        /\ post = "_node_free" => heap.nodes[root].parent = NULL
    /\ stack = <<WalkFrame(root)>>
    /\ result = NoResult /\ log = <<>>
    /\ freeLog = <<>> /\ freedDyn = {} /\ uaf = FALSE

SpecWalk == InitWalk /\ [][NextWalk]_vars

\* ================================================================= claims

\* the nodes p holds in its structural fields: a single-child slot, or a
\* sibling chain headed by one of its list fields
SingleFields == {"not", "left", "right", "lval", "expr", "map", "call",
                 "cond", "pred", "rec"}
ListFields == {"vargs", "then", "els", "stmts", "probes"}

Children(ns, p) ==
    ({ns[p][f] : f \in SingleFields} \ {NULL})
        \cup UNION {Range(Chain(ns, ns[p][f])) : f \in ListFields}

RECURSIVE Subtree(_, _)
Subtree(ns, n) == {n} \cup UNION {Subtree(ns, c) : c \in Children(ns, n)}

Succeeded(i) == regLog[i].ret # -1

\* C1: no register is returned by two different successful
\* node_probe_reg_get calls on one probe, and none is returned both to a
\* static and to a dynamic call.
RegExclusive ==
    /\ \A i, j \in 1..Len(regLog) :
        i < j /\ Succeeded(i) /\ Succeeded(j) => regLog[i].ret # regLog[j].ret
    /\ \A i, j \in 1..Len(regLog) :
        Succeeded(i) /\ Succeeded(j) /\ regLog[i].dynamic /\ ~regLog[j].dynamic
            => regLog[i].ret # regLog[j].ret

\* three calls of mixed classes have succeeded
RegExclusiveWitness ==
    /\ Len(regLog) = 3
    /\ \A i \in 1..3 : Succeeded(i)
    /\ regLog[1].dynamic /\ ~regLog[2].dynamic

SuccessesBefore(i) == Cardinality({j \in 1..(i - 1) : Succeeded(j)})

\* C2: once three node_probe_reg_get calls have succeeded on the probe,
\* every further call, of either class, returns -1.
RegExhaustion ==
    \A i \in 1..Len(regLog) :
        SuccessesBefore(i) >= BPF_REG_9 - BPF_REG_6 => regLog[i].ret = -1

\* a static and a dynamic call both failed after three successes
RegExhaustionWitness ==
    \E i, j \in 1..Len(regLog) :
        /\ SuccessesBefore(i) = 3 /\ SuccessesBefore(j) = 3
        /\ regLog[i].dynamic /\ ~regLog[j].dynamic
        /\ regLog[i].ret = -1 /\ regLog[j].ret = -1

\* C3 as stated: the offsets node_probe_stack_get returns are strictly
\* decreasing, and two consecutive offsets are apart by the size requested.
StackStrictlyDecreasing ==
    \A i \in 2..Len(stackLog) :
        /\ stackLog[i].ret < stackLog[i - 1].ret
        /\ stackLog[i - 1].ret - stackLog[i].ret = stackLog[i].size

\* C3 amended: the offsets returned never increase, each is below the one
\* returned before it (the first: below the initial sp) by exactly the size
\* of the call that returned it, hence strictly below when that size is not 0.
StackMonotone ==
    \A i \in 1..Len(stackLog) :
        LET before == IF i = 1 THEN 0 ELSE stackLog[i - 1].ret
        IN  /\ stackLog[i].ret <= before
            /\ before - stackLog[i].ret = stackLog[i].size
            /\ stackLog[i].size > 0 => stackLog[i].ret < before
            /\ i = Len(stackLog) => sp = stackLog[i].ret

\* a call of size 0 between two calls of other sizes
StackMonotoneWitness ==
    /\ Len(stackLog) = 3
    /\ stackLog[1].size = 2 /\ stackLog[2].size = 0 /\ stackLog[3].size = 1

\* C4: when a callback returns a non-zero status no callback is invoked after
\* it, and node_walk on the root returns exactly that status.
AbortPropagates ==
    \A i \in 1..Len(log) :
        log[i].st # 0 =>
            /\ i = Len(log)
            /\ stack = <<>> => result = <<log[i].st>>

\* the pre callback aborted with status 2 on the call inside the unroll of
\* the script: a statement follows it, and unroll, probe and script enclose it
AbortPropagatesWitness ==
    /\ root = 19 /\ Len(heap.nodes) = 19
    /\ stack = <<>> /\ result = <<2>>
    /\ Len(log) > 1
    /\ log[Len(log)] = [n |-> 13, cb |-> "pre", st |-> 2]

FreeDone == stack = <<>> /\ post = "_node_free" /\ ~uaf

\* C5: after node_free on a script root every node, every heap string handed
\* to a constructor and every dyn of a node that is neither map nor var has
\* been freed, and no dyn of a map or var node.
FreeComplete ==
    FreeDone /\ heap.nodes[root].type = "script" =>
        /\ Subtree(heap.nodes, root) = Range(freeLog)
        /\ \A i \in 1..Len(heap.strs) : heap.strs[i] = "freed"
        /\ \A n \in Subtree(heap.nodes, root) :
            n \in freedDyn <=> heap.nodes[n].type \notin {"map", "var"}

PreVisits ==
    LET IsPre(e) == e.cb = "pre"
        es == SelectSeq(log, IsPre)
    IN  [i \in 1..Len(es) |-> es[i].n]

IfWalked ==
    /\ heap = IfExample /\ root = 10
    /\ pre = "cb" /\ post = NoCb
    /\ stack = <<>> /\ result = <<0>>

\* C6 as stated: the pre-order walk of the if example visits 8 nodes: if,
\* binop, var a, int 1, then-assign, its literal, else-assign, its literal.
IfWalkVisitsEight == IfWalked => PreVisits = <<10, 3, 1, 2, 6, 5, 9, 8>>

\* C6 amended: the walk visits 10 nodes: if, binop, var a, int 1, then-assign,
\* its lvalue x, its literal, else-assign, its lvalue x, its literal.
IfWalkVisitsTen == IfWalked => PreVisits = IfOrder

IfWalkVisitsTenWitness == IfWalked /\ Len(log) = 10

\* C7: a node whose parent is p is among p's structural children, and every
\* structural child of p has parent p.
ParentConsistent ==
    \A n \in Ids :
        /\ heap.nodes[n].parent # NULL =>
               n \in Children(heap.nodes, heap.nodes[n].parent)
        /\ \A c \in Children(heap.nodes, n) : heap.nodes[c].parent = n

\* a constructor took a list of two
ParentConsistentWitness ==
    \E p \in Ids : \E f \in ListFields :
        Len(Chain(heap.nodes, heap.nodes[p][f])) = 2

AncestorsOrSelf(ns, n) == <<n>> \o Ancestors(ns, n)

\* the probe's statement list holds r
IsStatement(ns, r) ==
    /\ r > 0 /\ ns[r].parent # NULL
    /\ ns[ns[r].parent].type = "probe"
    /\ r \in Range(Chain(ns, ns[ns[r].parent].stmts))

\* C8 as stated: node_get_stmt on a node inside a probe, the predicate's
\* nodes included, returns the ancestor-or-self that is an element of the
\* probe's statement list.
GetStmtIsStatement ==
    q.n # NULL =>
        /\ q.ret \in Range(AncestorsOrSelf(heap.nodes, q.n))
        /\ IsStatement(heap.nodes, q.ret)

\* C8 amended: node_get_stmt on a node inside a probe returns the nearest
\* ancestor-or-self whose parent is a probe: the top-level statement that
\* holds the node, or the probe's predicate when the node is under it.
GetStmtNearest ==
    q.n # NULL =>
        LET ns == heap.nodes
            up == AncestorsOrSelf(ns, q.n)
        IN  \E k \in 1..Len(up) :
                /\ q.ret = up[k]
                /\ ns[up[k]].parent # NULL
                /\ ns[ns[up[k]].parent].type = "probe"
                /\ \A j \in 1..(k - 1) : ns[ns[up[j]].parent].type # "probe"
                /\ \/ IsStatement(ns, q.ret)
                   \/ ns[ns[q.ret].parent].pred = q.ret

\* the query was made on a node below the predicate
GetStmtNearestWitness ==
    /\ q.n # NULL /\ q.ret # q.n
    /\ heap.nodes[heap.nodes[q.ret].parent].pred = q.ret

\* C9: the n_vargs of a call or record node is the length of its vargs chain.
VargsCounted ==
    \A n \in Ids :
        heap.nodes[n].type \in {"call", "rec"} =>
            heap.nodes[n].n_vargs = Len(Chain(heap.nodes, heap.nodes[n].vargs))

\* node_map_new made the default record, which holds one string
VargsCountedWitness ==
    \E m \in Ids :
        /\ heap.nodes[m].type = "map"
        /\ heap.nodes[m].rec > m
        /\ heap.nodes[heap.nodes[m].rec].n_vargs = 1

NoDuplicates(seq) == \A i, j \in 1..Len(seq) : i # j => seq[i] # seq[j]

\* C10: node_free frees each node once, after every node below it, and the
\* walker reads no field of a freed node: the next link of a list element is
\* the one saved before the element was walked.
FreeOnceInOrder ==
    /\ ~uaf
    /\ NoDuplicates(freeLog)
    /\ \A i \in 1..Len(freeLog) :
        (Subtree(heap.nodes, freeLog[i]) \ {freeLog[i]})
            \subseteq {freeLog[j] : j \in 1..(i - 1)}
    /\ \A k \in 1..Len(stack) :
        stack[k].fn = "list" /\ k < Len(stack) =>
            /\ stack[k].elem \notin {freeLog[j] : j \in 1..Len(freeLog)}
                  \/ stack[k + 1].n # stack[k].elem
            /\ stack[k].next = heap.nodes[stack[k].elem].next
    /\ FreeDone => Range(freeLog) = Subtree(heap.nodes, root)

\* the whole script has been freed
FreeOnceInOrderWitness ==
    FreeDone /\ root = 19 /\ Len(freeLog) = 19

====
